---- MODULE Spec2Model ----
(***************************************************************************)
(* A model of the senlin action execution engine: the Action entity and   *)
(* its status state machine (senlin/engine/action.py), the requests of    *)
(* the engine service that create actions (senlin/engine/service.py), the *)
(* scaling policy (senlin/policies/scaling_policy.py), and the dispatcher *)
(* and storage gateway the three of them are written against.             *)
(***************************************************************************)
EXTENDS Integers, Sequences, FiniteSets, TLC

VARIABLES
    db,         \* the action table of the store: id -> record, or NoRecord
    workers,    \* each worker of the dispatcher: where it is and what it holds
    clusters,   \* the cluster table of the store, as ClusterAction.execute reads it
    retries,    \* the dispatcher's count of RETRY results, per action
    sobj,       \* an Action object a caller holds
    srow,       \* the record of that object in the store
    sraised,    \* what the last call on the object raised, "none" if nothing
    shist,      \* the calls made on the object, in order
    pcl,        \* the cluster the scaling actions target
    pbind,      \* the cluster-policy bindings, in the order the hooks run
    pact,       \* the scaling action the dispatcher is working on
    ppc,        \* where the dispatcher is with that action
    now,        \* the clock
    pg,         \* what happened to the action so far, for the properties
    call        \* the last call of an operation by a caller, with what it gave

engineVars == <<db, workers, clusters, retries>>

statusVars == <<sobj, srow, sraised, shist>>

policyVars == <<pcl, pbind, pact, ppc, now, pg>>

vars == <<db, workers, clusters, retries, sobj, srow, sraised, shist,
          pcl, pbind, pact, ppc, now, pg, call>>

----------------------------------------------------------------------------
(* Bounds of the model *)

MaxActions == 2

MaxCalls == 3

MaxTime == 3

MaxRounds == 2

MaxNodesPerCluster == 4

MaxCurrentSize == 10

ActionIds == 1..MaxActions

Workers == {"w1", "w2"}

ClusterIds == {"c1"}

NodeIds == {"n1"}

NULL == "null"

NoRecord == [status |-> "ABSENT"]

----------------------------------------------------------------------------
(* Action: class constants *)

\* Action.RETURNS
RETURNS == {"OK", "ERROR", "RETRY"}

\* The VALUES of Action.STATUSES.
STATUSES == {"INIT", "WAITING", "READY", "RUNNING", "SUCCEEDED", "FAILED", "CANCELLED"}

\* The NAMES Action.STATUSES binds on the class: the seventh is spelled
\* CANCELED, and its value is 'CANCELLED'.
STATUS_NAMES == {"INIT", "WAITING", "READY", "RUNNING", "SUCCEEDED", "FAILED", "CANCELED"}

\* The terminal statuses of the state machine.
Terminal == {"SUCCEEDED", "FAILED", "CANCELLED"}

ClusterACTIONS ==
    {"CLUSTER_CREATE", "CLUSTER_DELETE", "CLUSTER_UPDATE", "CLUSTER_ADD_NODES",
     "CLUSTER_DEL_NODES", "CLUSTER_SCALE_UP", "CLUSTER_SCALE_DOWN",
     "CLUSTER_ATTACH_POLICY", "CLUSTER_DETACH_POLICY"}

NodeACTIONS ==
    {"NODE_CREATE", "NODE_DELETE", "NODE_UPDATE", "NODE_JOIN_CLUSTER", "NODE_LEAVE_CLUSTER"}

PolicyACTIONS == {"POLICY_ENABLE", "POLICY_DISABLE", "POLICY_UPDATE"}

CustomACTIONS == {"ACTION_EXECUTE"}

----------------------------------------------------------------------------
(* Action: construction and the store *)

\* A new action that is READY from its construction on.
DefaultStatus_Ready == "READY"

\* Action.__init__: the status a new action has when the caller gives none.
DefaultStatus == "INIT"

\* Action.__init__: the owner a new action has when the caller gives none.
DefaultOwner == NULL

\* Action.__new__: action.split('_')[0] of the kinds a caller names.
target_type(action) ==
    IF action \in ClusterACTIONS \cup {"CLUSTER_SCALE_IN", "CLUSTER_SCALE_OUT", "CLUSTER_RESIZE"}
    THEN "CLUSTER"
    ELSE IF action \in NodeACTIONS \cup {"NODE_MIGRATE", "NODE_JOIN", "NODE_LEAVE"} THEN "NODE"
    ELSE IF action \in PolicyACTIONS \cup {"POLICY_ATTACH"} THEN "POLICY"
    ELSE IF action = "ACTION_EXECUTE" THEN "ACTION"
    ELSE "BACKUP"

\* __new__ choosing the variant by the kind's membership in a variant's
\* ACTIONS: a kind no variant lists is a custom action.
Action_new_ByMembership(action) ==
    IF action \in ClusterACTIONS THEN "ClusterAction"
    ELSE IF action \in NodeACTIONS THEN "NodeAction"
    ELSE IF action \in PolicyACTIONS THEN "PolicyAction"
    ELSE "CustomAction"

\* Action.__new__, called on the class Action: the variant whose instance
\* it returns, chosen by the prefix of the kind alone.
Action_new(action) ==
    IF target_type(action) = "CLUSTER" THEN "ClusterAction"
    ELSE IF target_type(action) = "NODE" THEN "NodeAction"
    ELSE IF target_type(action) = "POLICY" THEN "PolicyAction"
    ELSE "CustomAction"

\* Action.__new__: the ACTIONS of the variant the prefix selects.
VariantACTIONS(action) ==
    IF target_type(action) = "CLUSTER" THEN ClusterACTIONS
    ELSE IF target_type(action) = "NODE" THEN NodeACTIONS
    ELSE IF target_type(action) = "POLICY" THEN PolicyACTIONS
    ELSE CustomACTIONS

\* The attributes of self that Action.__init__ has assigned when it tests
\* the kind: none, the first assignment comes after the test.
AssignedAtKindTest == {}

\* A construction that takes the target as optional.
Action_raises_TargetOptional(action, target, cluster_id, policy_id) ==
    IF action \notin VariantACTIONS(action)
    THEN (IF "target" \in AssignedAtKindTest THEN "ActionNotSupported"
          ELSE "AttributeError")
    ELSE IF target_type(action) = "POLICY" /\ cluster_id = <<>> THEN "ActionMissingTarget"
    ELSE IF target_type(action) = "POLICY" /\ policy_id = <<>> THEN "ActionMissingPolicy"
    ELSE "none"

\* Action.__init__ and the __init__ of the variant: what the construction
\* raises, "none" when it returns an action.  The message of
\* ActionNotSupported is built from self.target.
Action_raises(action, target, cluster_id, policy_id) ==
    IF action \notin VariantACTIONS(action)
    THEN (IF "target" \in AssignedAtKindTest THEN "ActionNotSupported"
          ELSE "AttributeError")
    ELSE IF target = <<>> THEN "ActionMissingTarget"
    ELSE IF target_type(action) = "POLICY" /\ cluster_id = <<>> THEN "ActionMissingTarget"
    ELSE IF target_type(action) = "POLICY" /\ policy_id = <<>> THEN "ActionMissingPolicy"
    ELSE "none"

\* Action.__init__: the fields of a new action, the caller's kwargs applied
\* over the defaults.
Action_init(action, target, depends_on) ==
    [action        |-> action,
     target        |-> target,
     owner         |-> DefaultOwner,
     status        |-> DefaultStatus,
     status_reason |-> "",
     depends_on    |-> depends_on,
     depended_by   |-> {}]

\* Action.from_db_record: the object a worker holds, built from the record.
from_db_record(row) ==
    [status |-> row.status, owner |-> row.owner]

\* The attributes of self that Action.__init__ assigns.
InitAttributes ==
    {"context", "description", "target", "action", "cause", "owner", "interval",
     "start_time", "end_time", "timeout", "status", "status_reason", "inputs",
     "outputs", "depends_on", "depended_by"}

\* The attributes of self that Action.store reads: those of the values it
\* builds, and self.id in the call of db_api.action_create.
StoreAttributes ==
    {"name", "context", "target", "action", "cause", "owner", "interval",
     "start_time", "end_time", "timeout", "status", "status_reason", "inputs",
     "outputs", "depends_on", "depended_by", "deleted_time", "id"}

\* Action.store on an action as __init__ leaves it: reading an attribute
\* that was never assigned raises AttributeError, before the store is
\* reached.
store_raises ==
    IF StoreAttributes \subseteq InitAttributes THEN "none" ELSE "AttributeError"

\* The keyword arguments Action.from_db_record builds from the record.
FromRecordKwargs ==
    {"id", "name", "context", "target", "cause", "owner", "interval",
     "start_time", "end_time", "timeout", "status", "status_reason", "inputs",
     "outputs", "depends_on", "depended_by", "deleted_time"}

\* The parameters Action.__new__ and Action.__init__ name: a positional
\* argument and a keyword of the same name cannot both be given.
InitParameters == {"context", "action"}

\* Action.load(context, action_id): what it raises.  A missing record is
\* NotFound; from_db_record then calls cls(context, record.action,
\* **kwargs).
load_raises(row) ==
    IF row = NoRecord THEN "NotFound"
    ELSE IF FromRecordKwargs \cap InitParameters # {} THEN "TypeError"
    ELSE Action_raises(row.action, <<row.target>>, <<>>, <<>>)

\* Action.load when it returns: the fields of the object, the keyword
\* arguments __init__ takes from the record.
load_fields(row) ==
    [action        |-> row.action,
     target        |-> row.target,
     owner         |-> row.owner,
     status        |-> row.status,
     status_reason |-> row.status_reason,
     depends_on    |-> row.depends_on,
     depended_by   |-> row.depended_by]

\* The identifiers the store has a record for.
Stored == {a \in ActionIds : db[a] # NoRecord}

\* db_api.action_create, as Action.store calls it: the record is written
\* under the next identifier, and each dependency gets the reverse edge.
action_create_row(d, id, row) ==
    [a \in ActionIds |->
        IF a = id THEN row
        ELSE IF a \in row.depends_on
             THEN [d[a] EXCEPT !.depended_by = @ \cup {id}]
             ELSE d[a]]

\* db_api.action_mark_succeeded: the durable SUCCEEDED write; it releases
\* the ownership.
action_mark_succeeded(row) ==
    [row EXCEPT !.status = "SUCCEEDED", !.owner = NULL]

\* db_api.action_mark_failed: the durable FAILED write; it releases the
\* ownership.
action_mark_failed(row) ==
    [row EXCEPT !.status = "FAILED", !.owner = NULL]

\* db_api.action_mark_cancelled: the durable CANCELLED write; it releases
\* the ownership.
action_mark_cancelled(row) ==
    [row EXCEPT !.status = "CANCELLED", !.owner = NULL]

\* The store's update of some fields of a record, nothing else touched.
update_status(row, status) ==
    [row EXCEPT !.status = status]

\* set_status writing FAILED as a plain field update, not through the mark
\* operation of the store.
set_status_PlainUpdate(self, row, status) ==
    IF status = "SUCCEEDED"
    THEN [self |-> [self EXCEPT !.status = status],
          row |-> action_mark_succeeded(row), raised |-> "none"]
    ELSE IF status = "FAILED"
    THEN [self |-> [self EXCEPT !.status = status],
          row |-> update_status(row, "FAILED"), raised |-> "none"]
    ELSE [self |-> self, row |-> row, raised |-> "AttributeError"]

\* set_status putting a FAILED action back among the READY ones.
set_status_FailedAsReady(self, row, status) ==
    IF status = "SUCCEEDED"
    THEN [self |-> [self EXCEPT !.status = status],
          row |-> action_mark_succeeded(row), raised |-> "none"]
    ELSE IF status = "FAILED"
    THEN [self |-> [self EXCEPT !.status = "READY"],
          row |-> [update_status(row, "READY") EXCEPT !.owner = NULL],
          raised |-> "none"]
    ELSE [self |-> self, row |-> row, raised |-> "AttributeError"]

\* set_status refusing every call on an action that has ended, a call with
\* the status it already has included.
set_status_RejectEnded(self, row, status) ==
    IF self.status \in {"SUCCEEDED", "FAILED", "CANCELLED"}
    THEN [self |-> self, row |-> row, raised |-> "ActionError"]
    ELSE IF status = "SUCCEEDED"
    THEN [self |-> [self EXCEPT !.status = status],
          row |-> action_mark_succeeded(row), raised |-> "none"]
    ELSE IF status = "FAILED"
    THEN [self |-> [self EXCEPT !.status = status],
          row |-> action_mark_failed(row), raised |-> "none"]
    ELSE [self |-> self, row |-> row, raised |-> "AttributeError"]

\* Action.set_status on the object `self` whose record is `row`.  The third
\* branch reads the class attribute CANCELLED, which the class does not
\* bind (STATUS_NAMES), so every status other than SUCCEEDED and FAILED ends
\* in an AttributeError before self.status is assigned.
set_status(self, row, status) ==
    IF status = "SUCCEEDED"
    THEN [self |-> [self EXCEPT !.status = status],
          row |-> action_mark_succeeded(row), raised |-> "none"]
    ELSE IF status = "FAILED"
    THEN [self |-> [self EXCEPT !.status = status],
          row |-> action_mark_failed(row), raised |-> "none"]
    ELSE IF "CANCELLED" \notin STATUS_NAMES
    THEN [self |-> self, row |-> row, raised |-> "AttributeError"]
    ELSE IF status = "CANCELLED"
    THEN [self |-> [self EXCEPT !.status = status],
          row |-> action_mark_cancelled(row), raised |-> "none"]
    ELSE [self |-> [self EXCEPT !.status = status], row |-> row, raised |-> "none"]

\* Action.get_status: the status of the record, copied into the object.
get_status(self, row) ==
    [self |-> [self EXCEPT !.status = row.status], result |-> row.status]

----------------------------------------------------------------------------
(* Action: execution *)

\* ClusterAction.execute for `action` on the cluster record `cluster`
\* (exists, nodes): the outcomes it can end with, "EXC" an exception that
\* leaves execute.  CLUSTER_CREATE calls do_create, which the class does not
\* define; do_update reads self.UPDATING, which it does not define either;
\* do_delete builds each child with the keyword 'context' next to the
\* positional context, a TypeError, so it returns only with no member.
ClusterAction_execute(action, cluster) ==
    IF ~cluster.exists THEN {"ERROR"}
    ELSE IF action \in {"CLUSTER_CREATE", "CLUSTER_UPDATE"} THEN {"EXC"}
    ELSE IF action = "CLUSTER_DELETE"
    THEN (IF cluster.nodes > 0 THEN {"EXC"} ELSE {"OK"})
    ELSE {"OK"}

\* NodeAction.execute: the node's do_create / do_delete / ... answers true
\* or false, and a node that does not exist raises NotFound.
NodeAction_execute(action, exists) ==
    IF ~exists THEN {"EXC"} ELSE {"OK", "ERROR"}

\* The keyword parameters Action.store declares: none, its only parameter
\* is self.
StoreParameters == {}

\* PolicyAction.execute: it calls self.store(start_time=..., status=...)
\* before it does anything else, a TypeError for a keyword store does not
\* declare.
PolicyAction_execute(action) ==
    IF action \notin PolicyACTIONS THEN {"ERROR"}
    ELSE IF {"start_time", "status"} \subseteq StoreParameters THEN {"OK"}
    ELSE {"EXC"}

\* CustomAction.execute.
CustomAction_execute(action) == {"OK"}

\* PolicyAction.execute: the calls it makes on the store of the bindings
\* when it ends with the given result.  The IDs are read from the keyword
\* arguments of execute, kwargs.get('cluster_id') and
\* kwargs.get('policy_id'), not from the action; a caller that gives none
\* passes None for both.
PolicyAction_effects(action, result, kwargs) ==
    IF result # "OK" \/ action \notin {"POLICY_ENABLE", "POLICY_DISABLE"} THEN <<>>
    ELSE << [op |-> IF action = "POLICY_ENABLE" THEN "cluster_enable_policy"
                    ELSE "cluster_disable_policy",
             cluster_id |-> kwargs.cluster_id,
             policy_id  |-> kwargs.policy_id] >>

\* The results a handler of ClusterAction can hand to execute: RES_OK,
\* RES_ERROR (do_cluster_create, when the cluster's do_create is False),
\* and the False that res starts with.
HandlerResults == {"OK", "ERROR", "False"}

\* The truth value of a handler's result: 'OK' and 'ERROR' are non-empty
\* strings.
Truthy(res) == res # "False"

\* ClusterAction.execute: what it returns for a cluster that exists or
\* not, when the handler returned res: RES_OK if res else RES_ERROR.
ClusterAction_return(exists, res) ==
    IF ~exists THEN "ERROR"
    ELSE IF Truthy(res) THEN "OK" ELSE "ERROR"

\* The keyword arguments a cluster handler builds for each child action.
ChildKwargs == {"name", "context", "target", "cause"}

\* The loop of a cluster handler over `members`, building an action of
\* `kind` for each: Action(self.context, kind, **kwargs) and then
\* action.set_status(self.READY).  The kwargs hold 'context', which is
\* also given positionally; set_status(READY) reads self.CANCELLED; and no
\* store() is called, so nothing the loop builds reaches the store.  kinds
\* is the kinds the loop names, children the records it persists.
spawn(kind, members) ==
    IF members = {} THEN [raised |-> "none", kinds |-> {}, children |-> {}]
    ELSE IF ChildKwargs \cap InitParameters # {}
    THEN [raised |-> "TypeError", kinds |-> {kind}, children |-> {}]
    ELSE [raised |-> set_status([status |-> DefaultStatus, owner |-> DefaultOwner],
                                NoRecord, "READY").raised,
          kinds |-> {kind}, children |-> {}]

\* A handler's outcome: its result when it returns, scheduler.notify()
\* called after the loop only.
handler_outcome(s) ==
    [res |-> IF s.raised = "none" THEN "OK" ELSE "none",
     raised |-> s.raised, kinds |-> s.kinds, children |-> s.children,
     notified |-> IF s.raised = "none" THEN 1 ELSE 0]

\* ClusterAction.do_cluster_create on a cluster whose do_create answered
\* `created`, with one new node per unit of its size.
do_cluster_create(created, members) ==
    IF ~created
    THEN [res |-> "ERROR", raised |-> "none", kinds |-> {}, children |-> {}, notified |-> 0]
    ELSE handler_outcome(spawn("NODE_CREATE", members))

\* ClusterAction.do_update: cluster.set_status(self.UPDATING) comes first,
\* and the class binds no UPDATING.
do_update(members) ==
    IF "UPDATING" \notin STATUS_NAMES
    THEN [res |-> "none", raised |-> "AttributeError", kinds |-> {}, children |-> {},
          notified |-> 0]
    ELSE handler_outcome(spawn("NODE_UPDATE", members))

\* ClusterAction.do_delete: the kind it names for the children is
\* NODE_UPDATE.
do_delete(members) == handler_outcome(spawn("NODE_UPDATE", members))

\* Action.__new__: the variant is chosen by the prefix of the kind.
execute(row) ==
    IF Action_new(row.action) = "ClusterAction"
    THEN ClusterAction_execute(row.action, clusters[row.target])
    ELSE IF Action_new(row.action) = "NodeAction"
    THEN NodeAction_execute(row.action, row.target \in NodeIds)
    ELSE IF Action_new(row.action) = "PolicyAction"
    THEN PolicyAction_execute(row.action)
    ELSE CustomAction_execute(row.action)

\* PolicyAction.cancel: the arguments of its call of self.store are
\* evaluated first, self.CANCELLED among them, a name the class does not
\* bind (STATUS_NAMES); store declares neither keyword.
PolicyAction_cancel ==
    IF "CANCELLED" \notin STATUS_NAMES THEN [result |-> "none", raised |-> "AttributeError"]
    ELSE IF {"end_time", "status"} \subseteq StoreParameters
    THEN [result |-> "OK", raised |-> "none"]
    ELSE [result |-> "none", raised |-> "TypeError"]

\* cancel() of the variant: ClusterAction, NodeAction and CustomAction
\* return RES_OK and do nothing else.
cancel(variant) ==
    IF variant = "PolicyAction" THEN PolicyAction_cancel
    ELSE [result |-> "OK", raised |-> "none"]

----------------------------------------------------------------------------
(* The engine service: the requests that create actions *)

NextId == IF Stored = {} THEN 1 ELSE 1 + Cardinality(Stored)

\* Action(...) followed by action.store(): the record a request persists.
StoreNew(action, target, depends_on) ==
    /\ NextId \in ActionIds
    /\ db' = action_create_row(db, NextId, Action_init(action, target, depends_on))
    /\ UNCHANGED <<workers, clusters, retries>>

\* EngineService.cluster_delete: cluster_find raises for an unknown cluster,
\* and no action is built then.
cluster_delete(c) ==
    /\ clusters[c].exists
    /\ StoreNew("CLUSTER_DELETE", c, {})

\* EngineService.action_create: an action of the caller's kind on the
\* caller's target, with the caller's parameters (its dependencies among
\* them).
action_create(action, target, depends_on) ==
    /\ depends_on \subseteq Stored
    /\ StoreNew(action, target, depends_on)

----------------------------------------------------------------------------
(* The dispatcher and its workers *)

\* The dispatcher's bound on the RETRY results of one action.
MaxRetry == 1

IdleWorker == [pc |-> "idle", act |-> 0, res |-> "none", last |-> "none",
               obj |-> [status |-> "none", owner |-> NULL]]

\* The status the dependencies of a give it: READY once all of them are
\* SUCCEEDED, FAILED once one of them is FAILED, WAITING until then.
Recompute(d, a) ==
    IF d[a].status \notin {"INIT", "WAITING"} THEN d[a]
    ELSE IF \A b \in d[a].depends_on : d[b].status = "SUCCEEDED"
    THEN update_status(d[a], "READY")
    ELSE IF \E b \in d[a].depends_on : d[b].status = "FAILED"
    THEN [action_mark_failed(d[a]) EXCEPT !.status_reason = "dependency failed"]
    ELSE update_status(d[a], "WAITING")

\* The store after action a reached a status: every action of its
\* depended_by is recomputed.
Propagate(d, a) ==
    [x \in ActionIds |-> IF x \in d[a].depended_by THEN Recompute(d, x) ELSE d[x]]

\* A claim that writes the owner without comparing it.
compare_and_set_owner_Blind(row, expected, new) ==
    IF row.status = "READY"
    THEN [ok |-> TRUE, row |-> [row EXCEPT !.owner = new]]
    ELSE [ok |-> FALSE, row |-> row]

\* The storage gateway's compare-and-set of the owner of a READY action.
compare_and_set_owner(row, expected, new) ==
    IF row.status = "READY" /\ row.owner = expected
    THEN [ok |-> TRUE, row |-> [row EXCEPT !.owner = new]]
    ELSE [ok |-> FALSE, row |-> row]

\* Dependency analysis of an action that is INIT or WAITING.
Analyze(a) ==
    /\ a \in Stored
    /\ db[a].status \in {"INIT", "WAITING"}
    /\ db' = [db EXCEPT ![a] = Recompute(db, a)]
    /\ db' # db
    /\ UNCHANGED <<workers, clusters, retries>>

\* An idle worker finds a READY action nobody owns and goes to claim it.
Pick(w, a) ==
    /\ workers[w].pc = "idle"
    /\ a \in Stored
    /\ db[a].status = "READY"
    /\ db[a].owner = NULL
    /\ workers' = [workers EXCEPT ![w] = [IdleWorker EXCEPT !.pc = "claiming", !.act = a]]
    /\ UNCHANGED <<db, clusters, retries>>

\* The claim: one compare-and-set; the loser moves on.
Claim(w) ==
    /\ workers[w].pc = "claiming"
    /\ LET a == workers[w].act
           r == compare_and_set_owner(db[a], NULL, w)
       IN /\ db' = [db EXCEPT ![a] = r.row]
          /\ workers' = [workers EXCEPT ![w] =
                          IF r.ok THEN [@ EXCEPT !.pc = "claimed"]
                          ELSE [@ EXCEPT !.pc = "idle", !.last = "lost"]]
    /\ UNCHANGED <<clusters, retries>>

\* The owner moves its action to RUNNING and loads it.
Start(w) ==
    /\ workers[w].pc = "claimed"
    /\ LET a == workers[w].act
       IN /\ db' = [db EXCEPT ![a] = update_status(@, "RUNNING")]
          /\ workers' = [workers EXCEPT ![w].pc = "running",
                                        ![w].obj = from_db_record(db'[a])]
    /\ UNCHANGED <<clusters, retries>>

\* The owner runs the action's execute.
Execute(w) ==
    /\ workers[w].pc = "running"
    /\ \E r \in execute(db[workers[w].act]) :
          workers' = [workers EXCEPT ![w].pc = "finishing", ![w].res = r]
    /\ UNCHANGED <<db, clusters, retries>>

\* The terminal transition: OK is SUCCEEDED, ERROR or an exception is
\* FAILED, RETRY is READY again until the bound is spent; then the
\* dependents are recomputed.
Finish(w) ==
    /\ workers[w].pc = "finishing"
    /\ LET a == workers[w].act
           res == workers[w].res
           again == res = "RETRY" /\ retries[a] < MaxRetry
           st == set_status(workers[w].obj, db[a],
                            IF res = "OK" THEN "SUCCEEDED" ELSE "FAILED")
           row == IF again
                  THEN [update_status(db[a], "READY") EXCEPT !.owner = NULL]
                  ELSE [st.row EXCEPT !.status_reason =
                            IF res = "OK" THEN "" ELSE "execution failed"]
       IN /\ db' = Propagate([db EXCEPT ![a] = row], a)
          /\ retries' = [retries EXCEPT ![a] = IF again THEN @ + 1 ELSE @]
          /\ workers' = [workers EXCEPT ![w] = IdleWorker]
    /\ UNCHANGED clusters

\* A RUNNING action that outlived its timeout is marked FAILED by the
\* dispatcher, whatever its worker is doing.
Timeout(a) ==
    /\ a \in Stored
    /\ db[a].status = "RUNNING"
    /\ db' = Propagate([db EXCEPT ![a] =
                          [action_mark_failed(@) EXCEPT !.status_reason = "timeout"]], a)
    /\ UNCHANGED <<workers, clusters, retries>>

\* A cancel request reaches the worker of a RUNNING action: cancel() answers
\* OK and changes nothing, and the CANCELLED write goes through set_status.
\* When that raises, the worker's thread ends and the record stays as it is.
Cancel(w) ==
    /\ workers[w].pc \in {"running", "finishing"}
    /\ LET a == workers[w].act
           st == set_status(workers[w].obj, db[a], "CANCELLED")
       IN db' = Propagate([db EXCEPT ![a] = st.row], a)
    /\ workers' = [workers EXCEPT ![w] = IdleWorker]
    /\ UNCHANGED <<clusters, retries>>

----------------------------------------------------------------------------
(* The engine: requests, dispatcher and workers *)

EngineKinds == {"CLUSTER_DELETE", "NODE_CREATE"}

EngineIdle ==
    /\ db = [a \in ActionIds |-> NoRecord]
    /\ workers = [w \in Workers |-> IdleWorker]
    /\ retries = [a \in ActionIds |-> 0]

NoObject ==
    /\ sobj = [status |-> "none", owner |-> NULL]
    /\ srow = NoRecord
    /\ sraised = "none"
    /\ shist = <<>>

\* The data of an action no hook has written to.
NoData == [status |-> "none", reason |-> <<>>, creation |-> <<>>, deletion |-> <<>>]

NoAction ==
    [action |-> "none", inputs |-> [count |-> <<>>, last_op |-> <<>>],
     data |-> NoData, status |-> "none", status_reason |-> <<>>]

NoRound == [rejected |-> {}, executed |-> FALSE, spawned |-> 0,
            cluster |-> <<>>, bindings |-> <<>>]

NoCall == [fn |-> "none"]

NoPolicy ==
    /\ pcl = [id |-> "none", nodes |-> 0, min_size |-> 0, max_size |-> -1]
    /\ pbind = <<>>
    /\ pact = NoAction
    /\ ppc = [at |-> "idle", idx |-> 0, rounds |-> 0]
    /\ now = 0
    /\ pg = NoRound

Init ==
    /\ EngineIdle
    /\ clusters \in [ClusterIds -> [exists : {TRUE}, nodes : {0, 1}]]
    /\ NoObject
    /\ NoPolicy
    /\ call = NoCall

EngineStep ==
    \/ \E c \in ClusterIds : cluster_delete(c)
    \/ \E k \in EngineKinds, t \in ClusterIds \cup NodeIds, D \in SUBSET ActionIds :
          /\ (k \in ClusterACTIONS) = (t \in ClusterIds)
          /\ action_create(k, t, D)
    \/ \E a \in ActionIds : Analyze(a)
    \/ \E w \in Workers, a \in ActionIds : Pick(w, a)
    \/ \E w \in Workers : Claim(w)
    \/ \E w \in Workers : Start(w)
    \/ \E w \in Workers : Execute(w)
    \/ \E w \in Workers : Finish(w)
    \/ \E w \in Workers : Cancel(w)
    \/ \E a \in ActionIds : Timeout(a)

Next == EngineStep /\ UNCHANGED <<statusVars, policyVars, call>>

Spec == Init /\ [][Next]_vars

\* A step the engine takes of its own: the dispatcher's dependency
\* analysis and timeout, an idle worker finding a READY action on its poll
\* of the store, and a worker's step on the action it picked.
EngineProgress ==
    /\ \/ \E a \in ActionIds : Analyze(a) \/ Timeout(a)
       \/ \E w \in Workers, a \in ActionIds : Pick(w, a)
       \/ \E w \in Workers : Claim(w) \/ Start(w) \/ Execute(w) \/ Finish(w)
    /\ UNCHANGED <<statusVars, policyVars, call>>

\* The engine under fair scheduling: while the dispatcher or a worker can
\* take a step, the engine does not stop.  The requests and the
\* cancellations are the callers' to make.  No step of the engine is taken
\* more than a bounded number of times for one action, so this is all the
\* fairness a worker needs to get its turn.
SpecFair == Spec /\ WF_vars(EngineProgress)

----------------------------------------------------------------------------
(* The engine: properties *)

\* C1 (dependency order): an action is RUNNING only while every action of
\* its depends_on is SUCCEEDED.
DependencyOrder ==
    \A a \in Stored :
        db[a].status = "RUNNING" =>
            \A b \in db[a].depends_on : db[b].status = "SUCCEEDED"

\* An action with a dependency is RUNNING.
DependentRunning ==
    \E a \in Stored : db[a].status = "RUNNING" /\ db[a].depends_on # {}

\* C2 (mutual exclusion): no two distinct actions with the same target are
\* RUNNING with an owner at the same time.
MutualExclusion ==
    \A a, b \in Stored :
        (a # b /\ db[a].target = db[b].target)
            => ~(/\ db[a].status = "RUNNING" /\ db[a].owner # NULL
                 /\ db[b].status = "RUNNING" /\ db[b].owner # NULL)

\* The workers that hold action a after a successful claim.
Holders(a) ==
    {w \in Workers : workers[w].act = a
                     /\ workers[w].pc \in {"claimed", "running", "finishing"}}

\* C3 (claim protocol): of the workers claiming one READY action that has
\* no owner, the claim of the first succeeds and makes it the owner, every
\* other claim fails and changes nothing in the store, and no action is
\* ever held by two workers.
ClaimProtocol ==
    /\ [](\A a \in ActionIds : Cardinality(Holders(a)) <= 1)
    /\ [][\A w \in Workers :
            (workers[w].pc = "claiming" /\ workers'[w].pc # "claiming") =>
                LET a == workers[w].act
                    free == db[a].status = "READY" /\ db[a].owner = NULL
                IN /\ free => /\ workers'[w].pc = "claimed"
                              /\ db' = [db EXCEPT ![a].owner = w]
                   /\ ~free => /\ workers'[w].pc = "idle"
                               /\ UNCHANGED <<db, clusters, retries>>]_vars

\* Two workers claimed the same action: one owns it, the other lost.
ClaimWonAndLost ==
    \E w1, w2 \in Workers :
        /\ w1 # w2
        /\ workers[w1].pc = "claimed"
        /\ db[workers[w1].act].owner = w1
        /\ workers[w2].last = "lost"
        /\ workers[w2].act = workers[w1].act

FailurePropagation ==
    \A a \in ActionIds, b \in ActionIds :
        []((a \in Stored /\ b \in db[a].depends_on /\ db[b].status = "FAILED")
              => /\ [](db[a].status # "RUNNING")
                 /\ <>(db[a].status = "FAILED"))

\* The workers that run or have run the execute of action a and have not
\* yet written its result.
Executors(a) ==
    {w \in Workers : workers[w].act = a /\ workers[w].pc \in {"running", "finishing"}}

\* An action that is READY with every dependency SUCCEEDED.
Runnable(a) ==
    /\ a \in Stored
    /\ db[a].status = "READY"
    /\ \A b \in db[a].depends_on : db[b].status = "SUCCEEDED"

\* C29 (notification independence): with no notification at all, the
\* workers finding the actions on their poll, an action that is READY with
\* every dependency SUCCEEDED gets an owner and reaches a terminal status;
\* and when several workers go for the same action, as after a repeated
\* notification, at most one of them executes it.
NotificationIndependence ==
    /\ \A a \in ActionIds : Runnable(a) ~> (db[a].status \in Terminal)
    /\ [][\A a \in ActionIds :
            (Runnable(a) /\ db'[a].status # "READY")
                => (db'[a].status = "RUNNING" /\ db'[a].owner \in Workers)]_vars
    /\ [](\A a \in ActionIds : Cardinality(Executors(a)) <= 1)

\* Two workers went for the same action; the one that lost the claim is
\* still where the claim left it, and the action has SUCCEEDED.
PickedTwiceRanOnce ==
    \E w \in Workers, a \in Stored :
        /\ workers[w].last = "lost"
        /\ workers[w].act = a
        /\ db[a].status = "SUCCEEDED"
        /\ db[a].depends_on # {}

\* C30 (created READY): the record a request of the service persists has
\* the status READY and no owner.
CreatedReady ==
    [][\A a \in ActionIds :
          (db[a] = NoRecord /\ db'[a] # NoRecord) =>
              (db'[a].status = "READY" /\ db'[a].owner = NULL)]_vars

----------------------------------------------------------------------------
(* The status interface of one action: set_status and get_status called in
   any order on an object loaded from its record *)

\* The records an action can be loaded from: not yet claimed, claimed,
\* RUNNING under its owner, or ended by a mark operation of the store.
LoadableRows ==
    {[Action_init("CLUSTER_DELETE", "c1", {}) EXCEPT !.status = st, !.owner = o] :
        st \in {"INIT", "WAITING", "READY"}, o \in {NULL}}
    \cup {[Action_init("CLUSTER_DELETE", "c1", {}) EXCEPT !.status = st, !.owner = o] :
        st \in {"READY", "RUNNING"}, o \in Workers}
    \cup {action_mark_succeeded(Action_init("CLUSTER_DELETE", "c1", {})),
          action_mark_failed(Action_init("CLUSTER_DELETE", "c1", {}))}

InitStatus ==
    /\ EngineIdle
    /\ NoPolicy
    /\ clusters = [c \in ClusterIds |-> [exists |-> TRUE, nodes |-> 0]]
    /\ srow \in LoadableRows
    /\ sobj = from_db_record(srow)
    /\ sraised = "none"
    /\ shist = <<>>
    /\ call = NoCall

\* A caller calls set_status(status) on the object.
SetStatus(status) ==
    /\ Len(shist) < MaxCalls
    /\ LET r == set_status(sobj, srow, status)
       IN /\ sobj' = r.self
          /\ srow' = r.row
          /\ sraised' = r.raised
    /\ shist' = Append(shist, status)
    /\ UNCHANGED <<engineVars, policyVars, call>>

\* A caller calls get_status() on the object.
GetStatus ==
    /\ Len(shist) < MaxCalls
    /\ sobj' = get_status(sobj, srow).self
    /\ sraised' = "none"
    /\ shist' = Append(shist, "get_status")
    /\ UNCHANGED <<srow, engineVars, policyVars, call>>

NextStatus ==
    \/ \E status \in STATUSES : SetStatus(status)
    \/ GetStatus

SpecStatus == InitStatus /\ [][NextStatus]_vars

Last(h) == h[Len(h)]

\* C4 (terminal states are absorbing): a set_status call with another status
\* on an action that is SUCCEEDED, FAILED or CANCELLED is rejected and
\* changes no status, and from RUNNING each of the three terminal statuses
\* is accepted.
TerminalAbsorbing ==
    [][(Len(shist') = Len(shist) + 1 /\ Last(shist') \in STATUSES) =>
          /\ (srow.status \in Terminal /\ Last(shist') # srow.status) =>
                /\ sraised' # "none"
                /\ srow'.status = srow.status
                /\ sobj'.status = sobj.status
          /\ (srow.status = "RUNNING" /\ Last(shist') \in Terminal) =>
                /\ sraised' = "none"
                /\ srow'.status = Last(shist')]_vars

\* C6 (terminal idempotence): set_status(SUCCEEDED) on an action that a
\* first set_status(SUCCEEDED) made SUCCEEDED raises nothing and leaves the
\* object, its record and the retry counters as they were.
TerminalIdempotence ==
    [][(/\ shist # <<>>
        /\ Last(shist) = "SUCCEEDED"
        /\ sraised = "none"
        /\ shist' = Append(shist, "SUCCEEDED")) =>
          /\ sraised' = "none"
          /\ sobj' = sobj
          /\ srow' = srow
          /\ srow'.status = "SUCCEEDED"
          /\ retries' = retries]_vars

\* set_status(SUCCEEDED) has been called twice in a row without raising and
\* the record reads SUCCEEDED.
SucceededTwice ==
    /\ Len(shist) >= 2
    /\ shist[Len(shist)] = "SUCCEEDED"
    /\ shist[Len(shist) - 1] = "SUCCEEDED"
    /\ srow.status = "SUCCEEDED"
    /\ sraised = "none"

\* C7 (durable terminal writes): set_status(s) for s SUCCEEDED, FAILED or
\* CANCELLED raises nothing, leaves s in the record, and get_status() then
\* answers s.
DurableTerminalWrite ==
    (shist # <<>> /\ Last(shist) \in Terminal) =>
        /\ sraised = "none"
        /\ srow.status = Last(shist)
        /\ get_status(sobj, srow).result = Last(shist)

----------------------------------------------------------------------------
(* The scaling policy *)

CHECK_OK == "CHECK_OK"

CHECK_ERROR == "CHECK_ERROR"

\* ScalingPolicy._SUPPORTED_EVENTS
SUPPORTED_EVENTS == {"CLUSTER_SCALE_IN", "CLUSTER_SCALE_OUT"}

\* ScalingPolicy.TARGET
TARGET ==
    {<<"BEFORE", "CLUSTER_SCALE_IN">>, <<"BEFORE", "CLUSTER_SCALE_OUT">>,
     <<"AFTER", "CLUSTER_SCALE_IN">>, <<"AFTER", "CLUSTER_SCALE_OUT">>}

Min(a, b) == IF a < b THEN a ELSE b

\* timeutils.is_older_than(before, seconds) at time t: more than `seconds`
\* have passed since `before`.
is_older_than(before, seconds, t) == t - before > seconds

\* get_positive_int accepting zero.
get_positive_int_OrZero(v) ==
    IF v >= 0 THEN [ok |-> TRUE, value |-> v] ELSE [ok |-> FALSE, value |-> 0]

\* utils.get_positive_int: the value as an integer, accepted when it is
\* greater than zero.
get_positive_int(v) ==
    IF v > 0 THEN [ok |-> TRUE, value |-> v] ELSE [ok |-> FALSE, value |-> 0]

\* scaleutils.check_size_params(cluster, desired, strict): <<>> when the
\* desired size is acceptable, the reason when it is not.  The limit of the
\* deployment always holds; the limits of the cluster only when strict.
check_size_params(cluster, desired, strict) ==
    IF desired > MaxNodesPerCluster THEN <<"size", "max_nodes_per_cluster">>
    ELSE IF strict /\ desired < cluster.min_size THEN <<"size", "min_size">>
    ELSE IF strict /\ cluster.max_size >= 0 /\ desired > cluster.max_size
    THEN <<"size", "max_size">>
    ELSE <<>>

\* validate refusing a min_step of zero.
validate_MinStepAboveZero(p) ==
    IF p.number <= 0 THEN "InvalidSpec"
    ELSE IF p.min_step <= 0 THEN "InvalidSpec"
    ELSE IF p.cooldown < 0 THEN "InvalidSpec"
    ELSE "none"

\* ScalingPolicy.validate: what it raises, "none" when it returns.
validate(p) ==
    IF p.number <= 0 THEN "InvalidSpec"
    ELSE IF p.min_step < 0 THEN "InvalidSpec"
    ELSE IF p.cooldown < 0 THEN "InvalidSpec"
    ELSE "none"

\* int(n / 100.0): the quotient with its fraction dropped, towards zero.
int_of_percent(n) ==
    IF n >= 0 THEN n \div 100 ELSE -((-n) \div 100)

\* _calculate_adjustment_count without the min_step of the percentage.
calculate_adjustment_count_NoMinStep(p, current_size) ==
    IF p.type = "EXACT_CAPACITY"
    THEN (IF p.event = "CLUSTER_SCALE_IN"
          THEN current_size - p.number
          ELSE p.number - current_size)
    ELSE IF p.type = "CHANGE_IN_CAPACITY"
    THEN p.number
    ELSE int_of_percent(p.number * current_size)

\* ScalingPolicy._calculate_adjustment_count
calculate_adjustment_count(p, current_size) ==
    IF p.type = "EXACT_CAPACITY"
    THEN (IF p.event = "CLUSTER_SCALE_IN"
          THEN current_size - p.number
          ELSE p.number - current_size)
    ELSE IF p.type = "CHANGE_IN_CAPACITY"
    THEN p.number
    ELSE LET count == int_of_percent(p.number * current_size)
         IN IF count < p.min_step THEN p.min_step ELSE count

\* An update of action.data that keeps nothing of what the data held.
data_update_Replace(data, pd) ==
    [k \in DOMAIN data |-> IF k \in DOMAIN pd THEN pd[k] ELSE <<>>]

\* dict.update on action.data: the keys of pd replace those of data, the
\* other keys of data stay.
data_update(data, pd) ==
    [k \in DOMAIN data |-> IF k \in DOMAIN pd THEN pd[k] ELSE data[k]]

\* The count of pre_op taken from the policy's adjustment whatever the
\* inputs carry.
count_value_Computed(p, action, current) ==
    calculate_adjustment_count(p, current)

\* pre_op, the count it works with: the count of the action's inputs when
\* there is one, the policy's own calculation when there is none.
count_value(p, action, current) ==
    IF action.inputs.count = <<>>
    THEN calculate_adjustment_count(p, current)
    ELSE action.inputs.count[1]

\* The count of pre_op with no clamp for best_effort.
best_effort_count_Unclamped(p, action, cluster, count) ==
    count

\* pre_op, the count after the best_effort clamp: no further than the
\* cluster's min_size on scale-in, than its max_size (that of the
\* deployment when the cluster has none) on scale-out.
best_effort_count(p, action, cluster, count) ==
    LET current == cluster.nodes
        max_size == IF cluster.max_size = -1 THEN MaxNodesPerCluster
                    ELSE cluster.max_size
    IN IF ~p.best_effort THEN count
       ELSE IF action.action = "CLUSTER_SCALE_IN"
       THEN Min(count, current - cluster.min_size)
       ELSE Min(count, max_size - current)

\* A verdict of pre_op that takes the size check as passed.
pre_op_validate_Unchecked(p, action, cluster) ==
    LET current == cluster.nodes
        g == get_positive_int(count_value(p, action, current))
        scale_in == action.action = "CLUSTER_SCALE_IN"
        count == best_effort_count(p, action, cluster, g.value)
    IN IF ~g.ok
       THEN [status |-> CHECK_ERROR, reason |-> <<"invalid count">>]
       ELSE IF scale_in
       THEN [status |-> CHECK_OK, reason |-> <<"validated">>, deletion |-> <<count>>]
       ELSE [status |-> CHECK_OK, reason |-> <<"validated">>, creation |-> <<count>>]

\* The verdict of pre_op once the cooldown check has passed: the count is
\* resolved, required to be positive, clamped when best_effort, and checked
\* against the size limits.
pre_op_validate(p, action, cluster) ==
    LET current == cluster.nodes
        g == get_positive_int(count_value(p, action, current))
        scale_in == action.action = "CLUSTER_SCALE_IN"
        count == best_effort_count(p, action, cluster, g.value)
        result == check_size_params(cluster,
                                    IF scale_in THEN current - count ELSE current + count,
                                    ~p.best_effort)
    IN IF ~g.ok
       THEN [status |-> CHECK_ERROR, reason |-> <<"invalid count">>]
       ELSE IF result # <<>>
       THEN [status |-> CHECK_ERROR, reason |-> result]
       ELSE IF scale_in
       THEN [status |-> CHECK_OK, reason |-> <<"validated">>, deletion |-> <<count>>]
       ELSE [status |-> CHECK_OK, reason |-> <<"validated">>, creation |-> <<count>>]

\* pre_op without its cooldown check.
pre_op_NoCooldown(p, action, cluster, t) ==
    data_update(action.data, pre_op_validate(p, action, cluster))

\* ScalingPolicy.pre_op at time t: the action's data after the hook.
pre_op(p, action, cluster, t) ==
    LET last_op == action.inputs.last_op
    IN IF last_op # <<>> /\ ~is_older_than(last_op[1], p.cooldown, t)
       THEN data_update(action.data,
                        [status |-> CHECK_ERROR, reason |-> <<"cooldown", p.id>>])
       ELSE data_update(action.data, pre_op_validate(p, action, cluster))

\* ScalingPolicy.pre_op: the number of times it calls action.store on its
\* way out, once on each of its three paths.
pre_op_stores(p, action, cluster, t) ==
    LET last_op == action.inputs.last_op
        g == get_positive_int(count_value(p, action, cluster.nodes))
    IN IF last_op # <<>> /\ ~is_older_than(last_op[1], p.cooldown, t) THEN 1
       ELSE IF ~g.ok THEN 1
       ELSE 1

\* post_op stamping every binding of the policy, whatever its cluster.
post_op_AnyCluster(bindings, cluster_id, policy_id, t) ==
    [i \in DOMAIN bindings |->
        IF bindings[i].policy.id = policy_id
        THEN [bindings[i] EXCEPT !.last_op = <<t>>]
        ELSE bindings[i]]

\* ScalingPolicy.post_op at time t: ClusterPolicy.update writes last_op to
\* the binding of the cluster and the policy.
post_op(bindings, cluster_id, policy_id, t) ==
    [i \in DOMAIN bindings |->
        IF bindings[i].cluster = cluster_id /\ bindings[i].policy.id = policy_id
        THEN [bindings[i] EXCEPT !.last_op = <<t>>]
        ELSE bindings[i]]

\* need_check asking for the policy's own event in the AFTER phase too.
need_check_OwnEvent(p, target, action) ==
    IF <<target, action>> \notin TARGET THEN FALSE
    ELSE p.event = action

\* ScalingPolicy.need_check
need_check(p, target, action) ==
    IF <<target, action>> \notin TARGET THEN FALSE
    ELSE IF target = "BEFORE" THEN p.event = action
    ELSE action \in SUPPORTED_EVENTS

----------------------------------------------------------------------------
(* The dispatcher's policy checks around one scaling action *)

\* ClusterAction.do_scale_up: it returns RES_OK and does nothing else; it
\* reads no instruction of the action's data, changes nothing of the
\* cluster and builds no child action.
do_scale_up(cluster, action) ==
    [result |-> "OK", cluster |-> cluster, children |-> <<>>]

\* ClusterAction.do_scale_down: the same.
do_scale_down(cluster, action) ==
    [result |-> "OK", cluster |-> cluster, children |-> <<>>]

\* The adjustments the attached policies are configured with.
Adjustments ==
    {[type |-> "CHANGE_IN_CAPACITY", number |-> 3, min_step |-> 1],
     [type |-> "EXACT_CAPACITY", number |-> 3, min_step |-> 1],
     [type |-> "EXACT_CAPACITY", number |-> 2, min_step |-> 1],
     [type |-> "CHANGE_IN_PERCENTAGE", number |-> 50, min_step |-> 1]}

PolicyOf(id, e, adj, be, cd) ==
    [id |-> id, event |-> e, type |-> adj.type, number |-> adj.number,
     min_step |-> adj.min_step, best_effort |-> be, cooldown |-> cd]

FirstPolicies ==
    {PolicyOf("p1", e, adj, be, cd) :
        e \in SUPPORTED_EVENTS, adj \in Adjustments, be \in BOOLEAN, cd \in {0, 2}}

SecondPolicies ==
    {PolicyOf("p2", e, [type |-> "CHANGE_IN_CAPACITY", number |-> 1, min_step |-> 1], FALSE, 0) :
        e \in SUPPORTED_EVENTS}

InitPolicy ==
    /\ EngineIdle
    /\ clusters = [c \in ClusterIds |-> [exists |-> TRUE, nodes |-> 0]]
    /\ NoObject
    /\ \E max_size \in {3, -1} :
          pcl = [id |-> "c1", nodes |-> 2, min_size |-> 1, max_size |-> max_size]
    /\ \E p1 \in FirstPolicies, p2 \in SecondPolicies :
          pbind = <<[cluster |-> "c1", policy |-> p1, last_op |-> <<>>],
                    [cluster |-> "c1", policy |-> p2, last_op |-> <<>>],
                    [cluster |-> "c2", policy |-> p1, last_op |-> <<>>]>>
    /\ pact = NoAction
    /\ ppc = [at |-> "idle", idx |-> 0, rounds |-> 0]
    /\ now = 0
    /\ pg = NoRound
    /\ call = NoCall

\* A scaling request: the action is stored, claimed and RUNNING, and a round
\* of BEFORE hooks starts on it.
Submit(action, count) ==
    /\ ppc.at \in {"idle", "done"}
    /\ ppc.rounds < MaxRounds
    /\ pact' = [action |-> action, inputs |-> [count |-> count, last_op |-> <<>>],
                data |-> NoData, status |-> "RUNNING", status_reason |-> <<>>]
    /\ ppc' = [at |-> "before", idx |-> 1, rounds |-> ppc.rounds + 1]
    /\ pg' = [rejected |-> {}, executed |-> FALSE, spawned |-> 0,
              cluster |-> pcl, bindings |-> pbind]
    /\ UNCHANGED <<pcl, pbind, now>>

\* The hook of binding b is due in a phase: the binding is one of the
\* action's cluster and the policy's need_check accepts the action.
Applies(b, phase) ==
    /\ b.cluster = pcl.id
    /\ need_check(b.policy, phase, pact.action)

\* The next binding's BEFORE hook: skipped when it does not apply, else
\* pre_op runs with the binding's last_op passed in the action's inputs.
Before ==
    /\ ppc.at = "before"
    /\ ppc.idx <= Len(pbind)
    /\ LET b == pbind[ppc.idx]
           act == [pact EXCEPT !.inputs.last_op = b.last_op]
           ran == Applies(b, "BEFORE")
           data == pre_op(b.policy, act, pcl, now)
       IN /\ pact' = IF ran THEN [act EXCEPT !.data = data] ELSE pact
          /\ pg' = IF ran /\ data.status = CHECK_ERROR
                   THEN [pg EXCEPT !.rejected = @ \cup {data.reason}]
                   ELSE pg
    /\ ppc' = [ppc EXCEPT !.idx = @ + 1]
    /\ UNCHANGED <<pcl, pbind, now>>

\* The end of the round: a CHECK_ERROR in the action's data fails the
\* action with the reason recorded there, anything else lets it execute.
Decide ==
    /\ ppc.at = "before"
    /\ ppc.idx > Len(pbind)
    /\ IF pact.data.status = CHECK_ERROR
       THEN /\ pact' = [pact EXCEPT !.status = "FAILED",
                                    !.status_reason = pact.data.reason]
            /\ ppc' = [ppc EXCEPT !.at = "done"]
       ELSE /\ pact' = pact
            /\ ppc' = [ppc EXCEPT !.at = "exec"]
    /\ UNCHANGED <<pcl, pbind, now, pg>>

\* The execution of the scaling action, by the handler of its direction:
\* the result, the cluster and the children the handler leaves.
Scale ==
    /\ ppc.at = "exec"
    /\ LET r == IF pact.action = "CLUSTER_SCALE_OUT"
                THEN do_scale_up(pcl, pact)
                ELSE do_scale_down(pcl, pact)
       IN /\ pcl' = r.cluster
          /\ pg' = [pg EXCEPT !.executed = TRUE, !.spawned = Len(r.children)]
    /\ ppc' = [ppc EXCEPT !.at = "after", !.idx = 1]
    /\ UNCHANGED <<pbind, pact, now>>

\* The next binding's AFTER hook.
After ==
    /\ ppc.at = "after"
    /\ ppc.idx <= Len(pbind)
    /\ pbind' = IF Applies(pbind[ppc.idx], "AFTER")
                THEN post_op(pbind, pcl.id, pbind[ppc.idx].policy.id, now)
                ELSE pbind
    /\ ppc' = [ppc EXCEPT !.idx = @ + 1]
    /\ UNCHANGED <<pcl, pact, now, pg>>

\* The action ends SUCCEEDED.
Complete ==
    /\ ppc.at = "after"
    /\ ppc.idx > Len(pbind)
    /\ pact' = [pact EXCEPT !.status = "SUCCEEDED"]
    /\ ppc' = [ppc EXCEPT !.at = "done"]
    /\ UNCHANGED <<pcl, pbind, now, pg>>

\* A second passes between two requests.
Tick ==
    /\ ppc.at \in {"idle", "done"}
    /\ now < MaxTime
    /\ now' = now + 1
    /\ UNCHANGED <<pcl, pbind, pact, ppc, pg>>

PolicyStep ==
    \/ \E action \in SUPPORTED_EVENTS, count \in {<<>>, <<0>>, <<1>>, <<3>>} :
          Submit(action, count)
    \/ Before
    \/ Decide
    \/ Scale
    \/ After
    \/ Complete
    \/ Tick

NextPolicy == PolicyStep /\ UNCHANGED <<engineVars, statusVars, call>>

SpecPolicy == InitPolicy /\ [][NextPolicy]_vars

----------------------------------------------------------------------------
(* The policy checks: properties *)

StickyRejection ==
    [][(ppc.at = "before" /\ ppc'.at = "before" /\ pact.data.status = CHECK_ERROR)
          => pact'.data.status = CHECK_ERROR]_vars

\* C10 (cooldown): a pre_op of a policy whose binding was stamped at
\* last_op, run before last_op + cooldown, records CHECK_ERROR and adds no
\* creation or deletion instruction, whatever count the inputs carry.
Cooldown ==
    [][(ppc.at = "before" /\ ppc.idx <= Len(pbind) /\ ppc'.idx = ppc.idx + 1) =>
          LET b == pbind[ppc.idx]
          IN (/\ Applies(b, "BEFORE")
              /\ b.last_op # <<>>
              /\ now < b.last_op[1] + b.policy.cooldown)
                => /\ pact'.data.status = CHECK_ERROR
                   /\ pact'.data.creation = pact.data.creation
                   /\ pact'.data.deletion = pact.data.deletion]_vars

\* A hook has just rejected an action because its binding's cooldown, stamped
\* by a post_op, is still running.
CooldownRejected ==
    /\ ppc.at = "before"
    /\ ppc.idx > 1
    /\ pact.data.status = CHECK_ERROR
    /\ pact.data.reason = <<"cooldown", pbind[ppc.idx - 1].policy.id>>
    /\ pbind[ppc.idx - 1].last_op # <<>>
    /\ now < pbind[ppc.idx - 1].last_op[1] + pbind[ppc.idx - 1].policy.cooldown

\* C11 (post_op frame): the AFTER hook of policy P on cluster C, for a
\* scale-in and a scale-out action alike, sets last_op of the binding
\* (C, P) to the current time and leaves every other binding, those of P
\* to other clusters among them, as it was.
PostOpFrame ==
    [][(ppc.at = "after" /\ ppc.idx <= Len(pbind) /\ ppc'.idx = ppc.idx + 1
            /\ Applies(pbind[ppc.idx], "AFTER")) =>
          \A j \in 1..Len(pbind) :
              pbind'[j] = IF /\ pbind[j].cluster = pcl.id
                             /\ pbind[j].policy.id = pbind[ppc.idx].policy.id
                          THEN [pbind[j] EXCEPT !.last_op = <<now>>]
                          ELSE pbind[j]]_vars

\* The post_op of a scale-out policy has just stamped its binding to the
\* cluster after a scale-in action, while the binding of the same policy to
\* another cluster and the next binding of the cluster are not stamped.
PostOpStamped ==
    /\ ppc.at = "after"
    /\ ppc.idx = 2
    /\ now > 0
    /\ pact.action = "CLUSTER_SCALE_IN"
    /\ pbind[1].policy.event = "CLUSTER_SCALE_OUT"
    /\ pbind[1].last_op = <<now>>
    /\ pbind[2].last_op = <<>>
    /\ pbind[3].policy = pbind[1].policy
    /\ pbind[3].cluster # pbind[1].cluster
    /\ pbind[3].last_op = <<>>

\* The BEFORE hook of the next binding has just run, or been skipped.
HookStep ==
    /\ ppc.at = "before"
    /\ ppc.idx <= Len(pbind)
    /\ ppc'.idx = ppc.idx + 1

\* No cooldown of binding b is in progress.
NoCooldown(b) ==
    \/ b.last_op = <<>>
    \/ now - b.last_op[1] > b.policy.cooldown

\* The count the hook of binding b has to work with: the explicit one of
\* the inputs, or else the computed one.
ResolvedCount(b) ==
    IF pact.inputs.count # <<>> THEN pact.inputs.count[1]
    ELSE calculate_adjustment_count(b.policy, pcl.nodes)

\* The upper limit of the cluster's size: its max_size, or that of the
\* deployment when it has none.
UpperLimit ==
    IF pcl.max_size = -1 THEN MaxNodesPerCluster ELSE pcl.max_size

\* C14 (best-effort clamp): with no cooldown in progress, a scale-out whose
\* count would take the cluster from below its max_size to above it is
\* recorded CHECK_OK with creation.count = max_size - current when the
\* policy is best_effort and CHECK_ERROR when it is not; and the same for a
\* scale-in against min_size, with deletion.count = current - min_size.
BestEffortClamp ==
    [][HookStep =>
          LET b == pbind[ppc.idx]
              c == ResolvedCount(b)
              current == pcl.nodes
          IN (Applies(b, "BEFORE") /\ NoCooldown(b) /\ c > 0) =>
                /\ (/\ pact.action = "CLUSTER_SCALE_OUT"
                    /\ current < UpperLimit
                    /\ current + c > UpperLimit) =>
                       IF b.policy.best_effort
                       THEN /\ pact'.data.status = CHECK_OK
                            /\ pact'.data.creation = <<UpperLimit - current>>
                       ELSE pact'.data.status = CHECK_ERROR
                /\ (/\ pact.action = "CLUSTER_SCALE_IN"
                    /\ current > pcl.min_size
                    /\ current - c < pcl.min_size) =>
                       IF b.policy.best_effort
                       THEN /\ pact'.data.status = CHECK_OK
                            /\ pact'.data.deletion = <<current - pcl.min_size>>
                       ELSE pact'.data.status = CHECK_ERROR]_vars

\* The hook of a best_effort scale-out policy has just cut a count of 3 on
\* a cluster of 2 nodes with max_size 3 down to 1.
ClampedToMaxSize ==
    /\ ppc.at = "before"
    /\ ppc.idx = 2
    /\ pact.action = "CLUSTER_SCALE_OUT"
    /\ pact.inputs.count = <<3>>
    /\ pbind[1].policy.event = "CLUSTER_SCALE_OUT"
    /\ pbind[1].policy.best_effort
    /\ pcl.nodes = 2
    /\ pcl.max_size = 3
    /\ pact.data.status = CHECK_OK
    /\ pact.data.creation = <<1>>

\* C15 (count precedence): when the action's inputs carry a count, the
\* data pre_op leaves is the same whatever adjustment the policy is
\* configured with; when they carry none, it is the data pre_op leaves for
\* an explicit count equal to the computed one.
CountPrecedence ==
    [][HookStep =>
          LET b == pbind[ppc.idx]
              act == [pact EXCEPT !.inputs.last_op = b.last_op]
          IN Applies(b, "BEFORE") =>
                IF pact.inputs.count # <<>>
                THEN \A adj \in Adjustments :
                        pact'.data = pre_op([b.policy EXCEPT !.type = adj.type,
                                                             !.number = adj.number,
                                                             !.min_step = adj.min_step],
                                            act, pcl, now)
                ELSE pact'.data =
                        pre_op(b.policy,
                               [act EXCEPT !.inputs.count =
                                   <<calculate_adjustment_count(b.policy, pcl.nodes)>>],
                               pcl, now)]_vars

\* A scale-in of an explicit count of 1 has just been accepted by a policy
\* whose own adjustment (EXACT_CAPACITY 3 on a cluster of 2 nodes) computes
\* a negative count.
ExplicitCountUsed ==
    /\ ppc.at = "before"
    /\ ppc.idx = 2
    /\ pact.action = "CLUSTER_SCALE_IN"
    /\ pact.inputs.count = <<1>>
    /\ pbind[1].policy.event = "CLUSTER_SCALE_IN"
    /\ pbind[1].policy.type = "EXACT_CAPACITY"
    /\ calculate_adjustment_count(pbind[1].policy, pcl.nodes) < 0
    /\ pact.data.status = CHECK_OK
    /\ pact.data.deletion = <<1>>

\* C16 (non-positive count): with no cooldown in progress, a hook whose
\* resolved count (explicit or computed) is zero or negative records
\* CHECK_ERROR for the count, whatever the size limits, and attaches no
\* creation or deletion instruction.
NonPositiveCount ==
    [][HookStep =>
          LET b == pbind[ppc.idx]
          IN (Applies(b, "BEFORE") /\ NoCooldown(b) /\ ResolvedCount(b) <= 0) =>
                /\ pact'.data.status = CHECK_ERROR
                /\ pact'.data.reason = <<"invalid count">>
                /\ pact'.data.creation = pact.data.creation
                /\ pact'.data.deletion = pact.data.deletion]_vars

\* The first hook of a round has just rejected a scale-out to an
\* EXACT_CAPACITY no larger than the cluster for its count, and the data
\* holds no instruction.
ExactCapacityNotAbove ==
    /\ ppc.at = "before"
    /\ ppc.idx = 2
    /\ pact.action = "CLUSTER_SCALE_OUT"
    /\ pact.inputs.count = <<>>
    /\ pbind[1].policy.event = "CLUSTER_SCALE_OUT"
    /\ pbind[1].policy.type = "EXACT_CAPACITY"
    /\ pbind[1].policy.number <= pcl.nodes
    /\ pact.data.status = CHECK_ERROR
    /\ pact.data.reason = <<"invalid count">>
    /\ pact.data.creation = <<>>
    /\ pact.data.deletion = <<>>

\* C17 (instructions follow the verdict): the data of an action holds a
\* deletion instruction only with the status CHECK_OK on a CLUSTER_SCALE_IN
\* action, a creation instruction only with the status CHECK_OK on a
\* CLUSTER_SCALE_OUT action, and neither with the status CHECK_ERROR.
InstructionOnlyWhenOk ==
    /\ pact.data.deletion # <<>> =>
          (pact.data.status = CHECK_OK /\ pact.action = "CLUSTER_SCALE_IN")
    /\ pact.data.creation # <<>> =>
          (pact.data.status = CHECK_OK /\ pact.action = "CLUSTER_SCALE_OUT")

\* C19 (end-to-end scale-out): once a CLUSTER_SCALE_OUT action whose hooks
\* left CHECK_OK with creation.count = k has been executed, k NODE_CREATE
\* children have been spawned and the cluster has k nodes more than before.
ScaleOutEndToEnd ==
    (/\ pg.executed
     /\ pact.action = "CLUSTER_SCALE_OUT"
     /\ pact.data.status = CHECK_OK
     /\ pact.data.creation # <<>>) =>
        /\ pg.spawned = pact.data.creation[1]
        /\ pcl.nodes = pg.cluster.nodes + pact.data.creation[1]

----------------------------------------------------------------------------
(* The operations of the policy and of the Action class, called one by one *)

\* The phases a caller can name.
Phases == {"BEFORE", "AFTER", "AROUND"}

\* The action kinds a caller can name: those of the cluster and node
\* variants, the two scaling events, and one no variant knows.
Kinds == ClusterACTIONS \cup NodeACTIONS \cup SUPPORTED_EVENTS \cup {"CLUSTER_RESIZE"}

InitCalls ==
    /\ EngineIdle
    /\ clusters = [c \in ClusterIds |-> [exists |-> TRUE, nodes |-> 0]]
    /\ NoObject
    /\ NoPolicy
    /\ call = NoCall

\* policy.need_check(phase, action) on a scaling policy configured with
\* event e, for an action of the given kind.
CallNeedCheck(e, phase, kind) ==
    /\ call' = [fn |-> "need_check", event |-> e, phase |-> phase, kind |-> kind,
                result |-> need_check([event |-> e], phase, kind)]
    /\ UNCHANGED <<engineVars, statusVars, policyVars>>

\* The adjustment types, and the numbers and min_steps of the valid
\* configurations a caller tries.
AdjustmentTypes == {"EXACT_CAPACITY", "CHANGE_IN_CAPACITY", "CHANGE_IN_PERCENTAGE"}

ValidNumbers == {1, 3, 10, 50, 150}

ValidMinSteps == {0, 1, 2}

\* policy._calculate_adjustment_count(current_size) on a policy of the
\* given event and adjustment.
CallCalculate(e, type, number, min_step, current_size) ==
    /\ call' = [fn |-> "calculate_adjustment_count", event |-> e, type |-> type,
                number |-> number, min_step |-> min_step,
                current_size |-> current_size,
                result |-> calculate_adjustment_count(
                              [event |-> e, type |-> type, number |-> number,
                               min_step |-> min_step], current_size)]
    /\ UNCHANGED <<engineVars, statusVars, policyVars>>

\* The numbers, min_steps and cooldowns a caller asks validate about.
SpecValues == {-1, 0, 1, 2}

\* policy.validate(context) on a policy of the given adjustment.
CallValidate(number, min_step, cooldown) ==
    /\ call' = [fn |-> "validate", number |-> number, min_step |-> min_step,
                cooldown |-> cooldown,
                raised |-> validate([number |-> number, min_step |-> min_step,
                                     cooldown |-> cooldown])]
    /\ UNCHANGED <<engineVars, statusVars, policyVars>>

\* The resources the Neutron client deletes.
DeleteResources == {"load_balancer", "listener", "pool", "pool_member", "health_monitor"}

\* A delete of the Neutron client that tells the connection to ignore a
\* missing resource whatever its caller said.
NeutronClient_delete_AlwaysIgnore(resource, ids, ignore_missing) ==
    << [request        |-> resource,
        args           |-> IF resource = "pool_member" THEN <<ids[2], ids[1]>> ELSE ids,
        ignore_missing |-> TRUE] >>

\* NeutronClient.loadbalancer_delete, listener_delete, pool_delete,
\* pool_member_delete and healthmonitor_delete: the requests the call makes
\* on the connection.  pool_member_delete(pool_id, member_id) names the
\* member first in its request; ignore_missing is True when not given.
NeutronClient_delete(resource, ids, ignore_missing) ==
    << [request        |-> resource,
        args           |-> IF resource = "pool_member" THEN <<ids[2], ids[1]>> ELSE ids,
        ignore_missing |-> IF ignore_missing = <<>> THEN TRUE ELSE ignore_missing[1]] >>

\* The identifiers a caller of the Neutron client names.
ResourceIds == {"ID1", "ID2"}

\* self.nc.<resource>_delete(id) or (id, ignore_missing=...) on a client
\* whose connection records the requests made on it.
CallDelete(resource, ids, ignore_missing) ==
    /\ call' = [fn |-> "delete", resource |-> resource, ids |-> ids,
                ignore_missing |-> ignore_missing,
                requests |-> NeutronClient_delete(resource, ids, ignore_missing)]
    /\ UNCHANGED <<engineVars, statusVars, policyVars>>

\* The policies, clusters and actions pre_op is called with: a cluster
\* within its limits, at a limit or between them, with or without a
\* max_size of its own; an action that carries a count or none, a last_op
\* or none, and the data an earlier hook of the round may have left.
PreOpPolicies ==
    {PolicyOf("p1", e, [type |-> "CHANGE_IN_CAPACITY", number |-> 2, min_step |-> 1], be, 2) :
        e \in SUPPORTED_EVENTS, be \in BOOLEAN}

PreOpClusters ==
    {c \in [id : {"c1"}, nodes : 0..3, min_size : {0, 1}, max_size : {-1, 3}] :
        c.min_size <= c.nodes}

PreOpData ==
    {NoData,
     [status |-> CHECK_OK, reason |-> <<"validated">>, creation |-> <<1>>, deletion |-> <<>>]}

\* policy.pre_op(cluster_id, action) at time MaxTime, on a policy whose
\* event is the action's kind.
CallPreOp(p, count, last_op, data, cluster) ==
    LET action == [action |-> p.event, inputs |-> [count |-> count, last_op |-> last_op],
                   data |-> data, status |-> "RUNNING", status_reason |-> <<>>]
    IN /\ call' = [fn |-> "pre_op", policy |-> p, action |-> action, cluster |-> cluster,
                   data |-> pre_op(p, action, cluster, MaxTime),
                   stores |-> pre_op_stores(p, action, cluster, MaxTime),
                   raised |-> "none",
                   cluster_after |-> cluster,
                   last_op_after |-> last_op]
       /\ UNCHANGED <<engineVars, statusVars, policyVars>>

CallsStep ==
    \/ \E p \in PreOpPolicies, count \in {<<>>, <<0>>, <<1>>, <<5>>},
          last_op \in {<<>>, <<MaxTime>>}, data \in PreOpData, cluster \in PreOpClusters :
          CallPreOp(p, count, last_op, data, cluster)
    \/ \E resource \in DeleteResources, id \in ResourceIds, other \in ResourceIds,
          ignore_missing \in {<<>>, <<TRUE>>, <<FALSE>>} :
          CallDelete(resource,
                     IF resource = "pool_member" THEN <<id, other>> ELSE <<id>>,
                     ignore_missing)
    \/ \E e \in SUPPORTED_EVENTS, phase \in Phases, kind \in Kinds :
          CallNeedCheck(e, phase, kind)
    \/ \E e \in SUPPORTED_EVENTS, type \in AdjustmentTypes, number \in ValidNumbers,
          min_step \in ValidMinSteps, current_size \in 0..MaxCurrentSize :
          CallCalculate(e, type, number, min_step, current_size)
    \/ \E number \in SpecValues, min_step \in SpecValues, cooldown \in SpecValues :
          CallValidate(number, min_step, cooldown)

NextCalls == CallsStep

SpecCalls == InitCalls /\ [][NextCalls]_vars

----------------------------------------------------------------------------
(* The operations called one by one: properties *)

\* C12 (need_check): a scaling policy configured with event E accepts, in
\* phase BEFORE, exactly the actions of kind E; in phase AFTER, exactly the
\* CLUSTER_SCALE_IN and CLUSTER_SCALE_OUT actions; and nothing in any other
\* phase.
NeedCheck ==
    call.fn = "need_check" =>
        call.result = (IF call.phase = "BEFORE" THEN call.kind = call.event
                       ELSE IF call.phase = "AFTER"
                       THEN call.kind \in {"CLUSTER_SCALE_IN", "CLUSTER_SCALE_OUT"}
                       ELSE FALSE)

\* need_check has accepted, in the AFTER phase, a scale-out action for a
\* policy configured with the scale-in event.
NeedCheckAfterOtherEvent ==
    /\ call.fn = "need_check"
    /\ call.phase = "AFTER"
    /\ call.event = "CLUSTER_SCALE_IN"
    /\ call.kind = "CLUSTER_SCALE_OUT"
    /\ call.result = TRUE

\* C13 (adjustment arithmetic): for a valid configuration and a current
\* size of zero or more, calculate_adjustment_count gives number for
\* CHANGE_IN_CAPACITY; number - current_size on scale-out and
\* current_size - number on scale-in for EXACT_CAPACITY; and the larger of
\* floor(number * current_size / 100) and min_step for
\* CHANGE_IN_PERCENTAGE.
AdjustmentArithmetic ==
    call.fn = "calculate_adjustment_count" =>
        call.result =
            (IF call.type = "CHANGE_IN_CAPACITY" THEN call.number
             ELSE IF call.type = "EXACT_CAPACITY"
             THEN (IF call.event = "CLUSTER_SCALE_OUT"
                   THEN call.number - call.current_size
                   ELSE call.current_size - call.number)
             ELSE LET floor == (call.number * call.current_size) \div 100
                  IN IF floor >= call.min_step THEN floor ELSE call.min_step)

\* The percentage of a cluster of one node came to zero and min_step took
\* its place.
PercentageRaisedToMinStep ==
    /\ call.fn = "calculate_adjustment_count"
    /\ call.type = "CHANGE_IN_PERCENTAGE"
    /\ call.number = 50
    /\ call.current_size = 1
    /\ call.min_step = 1
    /\ call.result = 1

\* C18 (validation): validate raises InvalidSpec exactly when number <= 0,
\* or min_step < 0, or cooldown < 0, and raises nothing else.
Validation ==
    call.fn = "validate" =>
        /\ call.raised \in {"InvalidSpec", "none"}
        /\ (call.raised = "InvalidSpec") =
              (call.number <= 0 \/ call.min_step < 0 \/ call.cooldown < 0)

\* validate has accepted a policy with min_step 0 and cooldown 0.
ZeroMinStepAndCooldownAccepted ==
    /\ call.fn = "validate"
    /\ call.number > 0
    /\ call.min_step = 0
    /\ call.cooldown = 0
    /\ call.raised = "none"

ValidatedSize ==
    IF call.action.action = "CLUSTER_SCALE_IN"
    THEN call.cluster.nodes - call.data.deletion[1]
    ELSE call.cluster.nodes + call.data.creation[1]

\* The count of the instruction pre_op has recorded.
ValidatedCount ==
    IF call.action.action = "CLUSTER_SCALE_IN"
    THEN call.data.deletion[1] ELSE call.data.creation[1]

\* The upper limit of the cluster of the call.
CallUpperLimit ==
    IF call.cluster.max_size = -1 THEN MaxNodesPerCluster ELSE call.cluster.max_size

WrittenKeys ==
    {"status", "reason"} \cup
        (IF call.data.status # CHECK_OK THEN {}
         ELSE IF call.action.action = "CLUSTER_SCALE_IN" THEN {"deletion"}
         ELSE {"creation"})

----------------------------------------------------------------------------
(* The construction of actions *)

\* The kinds a caller constructs an action of: some their variant knows,
\* some it does not.
ConstructKinds ==
    {"CLUSTER_DELETE", "CLUSTER_SCALE_UP", "CLUSTER_SCALE_OUT", "CLUSTER_RESIZE",
     "NODE_CREATE", "NODE_MIGRATE", "POLICY_ENABLE", "POLICY_ATTACH",
     "ACTION_EXECUTE", "BACKUP"}

\* Action(context, action, target=..., cluster_id=..., policy_id=...)
\* followed by store(): a construction that raises leaves the caller with
\* no action to store, and a store() that raises never reaches
\* db_api.action_create.
Construct(action, target, cluster_id, policy_id) ==
    LET raised == Action_raises(action, target, cluster_id, policy_id)
        store_raised == IF raised = "none" THEN store_raises ELSE "none"
        persisted == raised = "none" /\ store_raised = "none" /\ NextId \in ActionIds
    IN /\ call' = [fn |-> "Action", action |-> action, target |-> target,
                   cluster_id |-> cluster_id, policy_id |-> policy_id,
                   variant |-> Action_new(action),
                   raised |-> raised, store_raised |-> store_raised,
                   id |-> IF persisted THEN <<NextId>> ELSE <<>>,
                   stored |-> Stored]
       /\ db' = IF persisted
                THEN action_create_row(db, NextId, Action_init(action, target[1], {}))
                ELSE db
       /\ UNCHANGED <<workers, clusters, retries, statusVars, policyVars>>

\* A request of the service persists an action of its own.
Persist(action, target) ==
    /\ action_create(action, target, {})
    /\ call' = [fn |-> "action_create", action |-> action, target |-> target,
                id |-> NextId]
    /\ UNCHANGED <<statusVars, policyVars>>

\* The operations of the service that submit work.
ServiceOperations ==
    {"cluster_create", "cluster_add_nodes", "cluster_del_nodes", "cluster_delete",
     "node_create", "node_delete", "node_join", "node_leave"}

\* The kind of the action each operation builds.
service_kind(op) ==
    CASE op = "cluster_create" -> "CLUSTER_CREATE"
      [] op = "cluster_add_nodes" -> "CLUSTER_ADD_NODES"
      [] op = "cluster_del_nodes" -> "CLUSTER_DEL_NODES"
      [] op = "cluster_delete" -> "CLUSTER_DELETE"
      [] op = "node_create" -> "NODE_CREATE"
      [] op = "node_delete" -> "NODE_DELETE"
      [] op = "node_join" -> "NODE_JOIN"
      [] op = "node_leave" -> "NODE_LEAVE"

\* EngineService.cluster_find: the cluster of the identity, none when the
\* store has no such cluster.
cluster_find(identity) ==
    IF identity \in ClusterIds /\ clusters[identity].exists THEN <<identity>> ELSE <<>>

\* What node_find gives for a node a caller names: no node, a node that
\* is not ACTIVE, an ACTIVE node of no cluster, a node of the cluster of
\* the request, or a node of another cluster.
NodeStates == {"missing", "inactive", "free", "member", "other"}

\* cluster_add_nodes: the error its test of the nodes ends in.
add_nodes_error(nodes) ==
    LET at(s) == {i \in DOMAIN nodes : nodes[i] = s}
    IN IF at("inactive") # {} THEN "SenlinBadRequest"
       ELSE IF at("member") \cup at("other") # {} THEN "SenlinBadRequest"
       ELSE IF at("missing") # {} THEN "SenlinBadRequest"
       ELSE IF at("free") = {} THEN "SenlinBadRequest"
       ELSE "none"

\* cluster_del_nodes: the error its test of the nodes ends in; with no
\* node named the message itself cannot be formatted.
del_nodes_error(nodes) ==
    LET at(s) == {i \in DOMAIN nodes : nodes[i] = s}
    IN IF at("missing") # {} THEN "SenlinBadRequest"
       ELSE IF at("inactive") \cup at("free") \cup at("other") # {} THEN "SenlinBadRequest"
       ELSE IF at("member") = {} THEN "TypeError"
       ELSE "none"

\* The lookups and the validation an operation does before it builds its
\* action: the exception they end in, "none" when they pass.  nodes are
\* the nodes the caller names, the first of them the node of a node
\* operation.
service_rejects(op, identity, nodes) ==
    LET no_cluster == cluster_find(identity) = <<>>
        no_node == nodes = <<>> \/ nodes[1] = "missing"
    IN CASE op \in {"cluster_create", "node_create"} -> "none"
         [] op = "cluster_delete" -> IF no_cluster THEN "ClusterNotFound" ELSE "none"
         [] op = "cluster_add_nodes" ->
                IF no_cluster THEN "ClusterNotFound" ELSE add_nodes_error(nodes)
         [] op = "cluster_del_nodes" ->
                IF no_cluster THEN "ClusterNotFound" ELSE del_nodes_error(nodes)
         [] op \in {"node_delete", "node_leave"} ->
                IF no_node THEN "NodeNotFound" ELSE "none"
         [] op = "node_join" ->
                IF no_node THEN "NodeNotFound"
                ELSE IF no_cluster THEN "ClusterNotFound" ELSE "none"

\* The lists of nodes a caller names.
NodeLists ==
    {<<>>} \cup {<<s>> : s \in NodeStates} \cup {<<s, "member">> : s \in NodeStates}
    \cup {<<s, "free">> : s \in NodeStates}

\* An operation of the service called with the identity of a cluster and
\* a list of nodes: the lookups and the validation, then Action(...),
\* action.store(context) and dispatcher.notify(..., action_id=action.id),
\* each reached only when nothing before it has raised.
ServiceRequest(op, identity, nodes) ==
    LET rejected == service_rejects(op, identity, nodes)
        kind == service_kind(op)
        target == IF target_type(kind) = "CLUSTER" THEN "c1" ELSE "n1"
        raised == IF rejected # "none" THEN rejected
                  ELSE Action_raises(kind, <<target>>, <<>>, <<>>)
    IN /\ raised # "none" \/ NextId \in ActionIds
       /\ call' = [fn |-> "service", op |-> op, rejected |-> rejected, raised |-> raised,
                   trace |-> IF raised # "none" THEN <<>>
                             ELSE <<[event |-> "store", id |-> NextId],
                                    [event |-> "NEW_ACTION", id |-> NextId]>>]
       /\ db' = IF raised # "none" THEN db
                ELSE action_create_row(db, NextId, Action_init(kind, target, {}))
       /\ UNCHANGED <<workers, clusters, retries, statusVars, policyVars>>

\* Action.load(context, action_id).
CallLoad(id) ==
    /\ call' = [fn |-> "load", id |-> id, raised |-> load_raises(db[id]),
                loaded |-> IF load_raises(db[id]) = "none"
                           THEN load_fields(db[id]) ELSE NoRecord]
    /\ UNCHANGED <<engineVars, statusVars, policyVars>>

\* The kinds the variants recognise.
RecognisedKinds == ClusterACTIONS \cup NodeACTIONS \cup PolicyACTIONS \cup CustomACTIONS

\* cancel() on an action of the given kind that is in the given status.
CallCancel(action, status) ==
    /\ call' = [fn |-> "cancel", action |-> action, status |-> status,
                variant |-> Action_new(action),
                result |-> cancel(Action_new(action)).result,
                raised |-> cancel(Action_new(action)).raised]
    /\ UNCHANGED <<engineVars, statusVars, policyVars>>

\* execute() on an action of the given kind and target; a policy action
\* is one constructed with cluster_id c1 and policy_id p1, and execute is
\* called with no argument, as a worker calls it.
CallExecute(action, target) ==
    /\ \E r \in execute(Action_init(action, target, {})) :
          call' = [fn |-> "execute", action |-> action, target |-> target,
                   variant |-> Action_new(action), result |-> r,
                   effects |-> PolicyAction_effects(
                                  action, r, [cluster_id |-> <<>>, policy_id |-> <<>>])]
    /\ UNCHANGED <<engineVars, statusVars, policyVars>>

\* The members a cluster can have when a handler runs on it.
MemberSets == SUBSET {"n1", "n2"}

\* do_cluster_create, do_update or do_delete called on a cluster of the
\* given members.
CallHandler(action, created, members) ==
    /\ call' = [fn |-> "handler", action |-> action, members |-> members,
                outcome |-> IF action = "CLUSTER_CREATE"
                            THEN do_cluster_create(created, members)
                            ELSE IF action = "CLUSTER_UPDATE" THEN do_update(members)
                            ELSE do_delete(members)]
    /\ UNCHANGED <<engineVars, statusVars, policyVars>>

\* The last statement of ClusterAction.execute, on the result res of the
\* handler.
CallReturn(exists, res) ==
    /\ call' = [fn |-> "return", exists |-> exists, res |-> res,
                result |-> ClusterAction_return(exists, res)]
    /\ UNCHANGED <<engineVars, statusVars, policyVars>>

NextConstruct ==
    \/ \E action \in ConstructKinds, target \in {<<>>, <<"c1">>},
          cluster_id \in {<<>>, <<"c1">>}, policy_id \in {<<>>, <<"p1">>} :
          Construct(action, target, cluster_id, policy_id)
    \/ \E action \in EngineKinds, target \in ClusterIds \cup NodeIds :
          /\ (action \in ClusterACTIONS) = (target \in ClusterIds)
          /\ Persist(action, target)
    \/ \E id \in ActionIds : CallLoad(id)
    \/ \E action \in RecognisedKinds, status \in STATUSES : CallCancel(action, status)
    \/ \E action \in RecognisedKinds, target \in ClusterIds \cup NodeIds \cup {"n0"} :
          /\ (action \in ClusterACTIONS) = (target \in ClusterIds)
          /\ CallExecute(action, target)
    \/ \E action \in {"CLUSTER_CREATE", "CLUSTER_UPDATE", "CLUSTER_DELETE"},
          created \in BOOLEAN, members \in MemberSets :
          CallHandler(action, created, members)
    \/ \E exists \in BOOLEAN, res \in HandlerResults : CallReturn(exists, res)

SpecConstruct == InitCalls /\ [][NextConstruct]_vars

\* The requests of the callers of the service, one after the other.
NextService ==
    \E op \in ServiceOperations, identity \in ClusterIds \cup {"c0"}, nodes \in NodeLists :
        ServiceRequest(op, identity, nodes)

SpecService == InitCalls /\ [][NextService]_vars

\* C20 (unsupported kind): the construction of an action whose kind is not
\* in the ACTIONS of its variant raises ActionNotSupported, with or without
\* a target, and no record is created.
UnsupportedKind ==
    (call.fn = "Action" /\ call.action \notin VariantACTIONS(call.action)) =>
        /\ call.raised = "ActionNotSupported"
        /\ Stored = call.stored

\* C21 (missing target): the construction of an action of a kind its
\* variant recognises, without a target, raises ActionMissingTarget, and
\* the store holds the records it held before, none more.
MissingTarget ==
    (/\ call.fn = "Action"
     /\ call.action \in VariantACTIONS(call.action)
     /\ call.target = <<>>) =>
        /\ call.raised = "ActionMissingTarget"
        /\ call.id = <<>>
        /\ Stored = call.stored

\* An action of a recognised kind was constructed without a target while
\* the store held a record, and another with a target was not refused.
ConstructedWithoutTarget ==
    /\ call.fn = "Action"
    /\ call.action = "NODE_CREATE"
    /\ call.target = <<>>
    /\ call.raised = "ActionMissingTarget"
    /\ Stored # {}

\* C22 (policy action): the construction of a POLICY_ENABLE,
\* POLICY_DISABLE or POLICY_UPDATE action with a target raises
\* ActionMissingPolicy when the cluster ID or the policy ID is missing,
\* and raises nothing when both are given.
PolicyActionConstruction ==
    (/\ call.fn = "Action"
     /\ call.action \in PolicyACTIONS
     /\ call.target # <<>>) =>
        IF call.cluster_id = <<>> \/ call.policy_id = <<>>
        THEN call.raised = "ActionMissingPolicy"
        ELSE call.raised = "none"

\* C23 (variant resolution): Action(context, kind, ...) is an instance of
\* ClusterAction for a kind that starts with CLUSTER_, of NodeAction for
\* NODE_, of PolicyAction for POLICY_ and of CustomAction for every other
\* kind, whatever the target and the IDs given with it, and whether or not
\* the variant recognises the kind.
VariantResolution ==
    call.fn = "Action" =>
        /\ call.action \in {"CLUSTER_DELETE", "CLUSTER_SCALE_UP", "CLUSTER_SCALE_OUT",
                             "CLUSTER_RESIZE"} <=> call.variant = "ClusterAction"
        /\ call.action \in {"NODE_CREATE", "NODE_MIGRATE"} <=> call.variant = "NodeAction"
        /\ call.action \in {"POLICY_ENABLE", "POLICY_ATTACH"} <=> call.variant = "PolicyAction"
        /\ call.action \in {"ACTION_EXECUTE", "BACKUP"} <=> call.variant = "CustomAction"

\* A kind with the POLICY prefix that PolicyAction does not recognise was
\* resolved to PolicyAction, without a target.
UnknownPolicyKindResolved ==
    /\ call.fn = "Action"
    /\ call.action = "POLICY_ATTACH"
    /\ call.target = <<>>
    /\ call.variant = "PolicyAction"

\* C24 (execute is total): execute() of an action of a recognised kind
\* ends with OK, ERROR or RETRY, and with no exception.
ExecuteTotal ==
    call.fn = "execute" => call.result \in RETURNS

\* C25 (cancel): cancel() returns OK and raises nothing, for every variant
\* and in every status.
CancelReturnsOk ==
    call.fn = "cancel" => (call.result = "OK" /\ call.raised = "none")

\* C26 (store/load round trip): store() of a constructed action raises
\* nothing and returns the identifier of a record, and load of the
\* identifier of a record raises nothing and returns an action of the
\* record's variant and fields.
StoreLoadRoundTrip ==
    /\ (call.fn = "Action" /\ call.raised = "none") =>
          /\ call.store_raised = "none"
          /\ call.id # <<>> =>
                /\ db[call.id[1]] # NoRecord
                /\ load_raises(db[call.id[1]]) = "none"
                /\ load_fields(db[call.id[1]]) = Action_init(call.action, call.target[1], {})
    /\ (call.fn = "load" /\ db[call.id] # NoRecord) =>
          /\ call.raised = "none"
          /\ call.loaded = db[call.id]

----------------------------------------------------------------------------
(* The attachment of policies to clusters *)

\* The policies policies.load can load, each of one type.
AttachPolicies ==
    {[id |-> "p1", type |-> "ScalingPolicy"], [id |-> "p2", type |-> "ScalingPolicy"],
     [id |-> "p3", type |-> "DeletionPolicy"], [id |-> "p4", type |-> "PlacementPolicy"]}

\* policies.load(context, policy_id).
policies_load(policy_id) == CHOOSE p \in AttachPolicies : p.id = policy_id

\* db_api.cluster_get_policies: the bindings of one cluster, in the order
\* they were made.
cluster_get_policies(bindings, cluster_id) ==
    SelectSeq(bindings, LAMBDA b : b.cluster = cluster_id)

\* db_api.cluster_attach_policy: one more binding.
cluster_attach_policy(bindings, cluster_id, policy) ==
    Append(bindings, [cluster |-> cluster_id, policy |-> policy, enabled |-> TRUE])

\* An attachment that looks for the policy among the bindings and not for
\* its type.
do_attach_policy_AnyType(bindings, cluster_id, policy_id) ==
    IF policy_id = <<>>
    THEN [res |-> "none", raised |-> "PolicyNotSpecified", bindings |-> bindings]
    ELSE LET policy == policies_load(policy_id[1])
             all == cluster_get_policies(bindings, cluster_id)
         IN IF \E i \in 1..Len(all) : all[i].policy.id = policy.id
            THEN [res |-> "OK", raised |-> "none", bindings |-> bindings]
            ELSE [res |-> "OK", raised |-> "none",
                  bindings |-> cluster_attach_policy(bindings, cluster_id, policy)]

\* ClusterAction.do_attach_policy on the cluster cluster_id, policy_id the
\* 'policy_id' of the action's inputs (<<>> when it has none).  The loop
\* stops at the first binding of the same policy or of the same type.
do_attach_policy(bindings, cluster_id, policy_id) ==
    IF policy_id = <<>>
    THEN [res |-> "none", raised |-> "PolicyNotSpecified", bindings |-> bindings]
    ELSE LET policy == policies_load(policy_id[1])
             all == cluster_get_policies(bindings, cluster_id)
             hits == {i \in 1..Len(all) :
                        all[i].policy.id = policy.id \/ all[i].policy.type = policy.type}
             first == CHOOSE i \in hits : \A j \in hits : i <= j
         IN IF hits = {}
            THEN [res |-> "OK", raised |-> "none",
                  bindings |-> cluster_attach_policy(bindings, cluster_id, policy)]
            ELSE IF all[first].policy.id = policy.id
            THEN [res |-> "OK", raised |-> "none", bindings |-> bindings]
            ELSE [res |-> "none", raised |-> "PolicyExists", bindings |-> bindings]

\* The clusters policies are attached to.
AttachClusters == {"c1", "c2"}

\* The execution of a CLUSTER_ATTACH_POLICY action on a cluster.
Attach(cluster_id, policy_id) ==
    LET r == do_attach_policy(pbind, cluster_id, policy_id)
    IN /\ pbind' = r.bindings
       /\ call' = [fn |-> "do_attach_policy", cluster |-> cluster_id,
                   policy_id |-> policy_id, res |-> r.res, raised |-> r.raised,
                   before |-> pbind]
       /\ UNCHANGED <<engineVars, statusVars, pcl, pact, ppc, now, pg>>

NextAttach ==
    \E cluster_id \in AttachClusters,
       policy_id \in {<<>>} \cup {<<p.id>> : p \in AttachPolicies} :
        Attach(cluster_id, policy_id)

SpecAttach == InitCalls /\ [][NextAttach]_vars

\* C35 (attach policy): no cluster has two bindings of one policy or of
\* one type; an attachment of a policy the cluster has returns OK, one of
\* a type the cluster has through another policy raises PolicyExists, one
\* without policy_id raises PolicyNotSpecified, and these three leave the
\* bindings as they were.
AttachInvariant ==
    /\ \A i, j \in 1..Len(pbind) :
          (i # j /\ pbind[i].cluster = pbind[j].cluster) =>
              /\ pbind[i].policy.id # pbind[j].policy.id
              /\ pbind[i].policy.type # pbind[j].policy.type
    /\ call.fn = "do_attach_policy" =>
          LET had == {call.before[i].policy : i \in
                         {k \in 1..Len(call.before) : call.before[k].cluster = call.cluster}}
          IN /\ call.policy_id = <<>> =>
                   (call.raised = "PolicyNotSpecified" /\ pbind = call.before)
             /\ (call.policy_id # <<>> /\ \E p \in had : p.id = call.policy_id[1]) =>
                   (call.res = "OK" /\ call.raised = "none" /\ pbind = call.before)
             /\ (/\ call.policy_id # <<>>
                 /\ \A p \in had : p.id # call.policy_id[1]
                 /\ \E p \in had : \E q \in AttachPolicies :
                        q.id = call.policy_id[1] /\ q.type = p.type) =>
                   (call.raised = "PolicyExists" /\ pbind = call.before)

\* A second policy of a type was refused on a cluster that has policies of
\* two types, while the other cluster has that very policy.
SecondOfTypeRefused ==
    /\ call.fn = "do_attach_policy"
    /\ call.cluster = "c1"
    /\ call.policy_id = <<"p2">>
    /\ call.raised = "PolicyExists"
    /\ \E i \in 1..Len(pbind) : pbind[i].cluster = "c2" /\ pbind[i].policy.id = "p2"
    /\ Cardinality({i \in 1..Len(pbind) : pbind[i].cluster = "c1"}) >= 2

----------------------------------------------------------------------------
(* The handlers of the variants: properties *)

ChildrenReadyBeforeNotify ==
    (call.fn = "handler" /\ call.outcome.res # "ERROR") =>
        /\ call.outcome.raised = "none"
        /\ call.outcome.notified = 1
        /\ {c.target : c \in call.outcome.children} = call.members
        /\ \A c \in call.outcome.children : c.status = "READY"

\* C34 (cluster delete): CLUSTER_DELETE on a cluster of k members returns
\* OK and creates k children, one NODE_DELETE action for each member, and
\* none for a cluster with no member.
DeleteSpawnsPerMember ==
    (call.fn = "handler" /\ call.action = "CLUSTER_DELETE") =>
        /\ call.outcome.res = "OK"
        /\ call.outcome.kinds \subseteq {"NODE_DELETE"}
        /\ {[action |-> c.action, target |-> c.target] : c \in call.outcome.children}
              = {[action |-> "NODE_DELETE", target |-> m] : m \in call.members}

\* C38 (one action, one notification): an operation of the service whose
\* lookups and validation pass persists one action and then sends one
\* NEW_ACTION notification with that action's identifier; one whose
\* lookups or validation fail persists nothing and sends nothing.
ServiceSubmitsOnce ==
    [][call'.fn = "service" =>
          IF call'.rejected = "none"
          THEN /\ NextId \notin Stored
               /\ Stored' = Stored \cup {NextId}
               /\ call'.trace = <<[event |-> "store", id |-> NextId],
                                  [event |-> "NEW_ACTION", id |-> NextId]>>
          ELSE /\ db' = db
               /\ call'.trace = <<>>]_vars

\* C37 (policy enable and disable): the execute of a POLICY_ENABLE or
\* POLICY_DISABLE action constructed for cluster c1 and policy p1 returns
\* OK and makes one call on the store of the bindings, enabling or
\* disabling the binding (c1, p1).
PolicyEnableDisable ==
    (call.fn = "execute" /\ call.action \in {"POLICY_ENABLE", "POLICY_DISABLE"}) =>
        /\ call.result = "OK"
        /\ call.effects =
              << [op |-> IF call.action = "POLICY_ENABLE" THEN "cluster_enable_policy"
                         ELSE "cluster_disable_policy",
                  cluster_id |-> <<"c1">>, policy_id |-> <<"p1">>] >>

====
